---- MODULE Spec2Model ----
(***************************************************************************)
(* Skip-gram word embeddings with an optional BPE subword vocabulary:      *)
(* the Vocabulary class, the Dataset / DataLoader pipeline of utils.py and *)
(* the set-up of MainExec.train in run.py.                                 *)
(*                                                                         *)
(* A Python string is a sequence of one-character strings; a token such as *)
(* 'ab</w>' is <<"a","b","<","/","w",">">>.  A dict is a function, except  *)
(* where the code depends on the insertion order (Counter, get_pairs):     *)
(* there it is a sequence of entries in insertion order.                   *)
(***************************************************************************)
EXTENDS Naturals, Integers, Sequences, FiniteSets, TLC

\* ------------------------------------------------------------------ bounds
MaxWords == 4
MaxMerges == 5
MaxHashSeed == 1
MaxBatch == 3
MaxWindow == 2
MaxEpochs == 2
MaxRuns == 2

\* --------------------------------------------------------- program constants
ascii_lowercase ==
  {"a","b","c","d","e","f","g","h","i","j","k","l","m",
   "n","o","p","q","r","s","t","u","v","w","x","y","z"}

EOW == <<"<", "/", "w", ">">>

PAD_TOKEN == <<"P", "A", "D">> \o EOW

\* The stems of the words of the modelled corpora; preprocess appends EOW.
Stems == { <<"a">>, <<"a", "b">> }

Words == { s \o EOW : s \in Stems }

\* Word lists of at most MaxWords words.
WordLists == UNION { [1..n -> Words] : n \in 0..MaxWords }

\* ------------------------------------------------------------ Python helpers
RECURSIVE SumSeq(_)
SumSeq(s) == IF s = <<>> THEN 0 ELSE Head(s) + SumSeq(Tail(s))

RECURSIVE Flatten(_)
Flatten(ss) == IF ss = <<>> THEN <<>> ELSE Head(ss) \o Flatten(Tail(ss))

Range(s) == { s[i] : i \in 1..Len(s) }

\* sep.join(parts)
RECURSIVE Join(_)
Join(parts) ==
  IF parts = <<>> THEN <<>>
  ELSE IF Len(parts) = 1 THEN parts[1]
  ELSE parts[1] \o <<" ">> \o Join(Tail(parts))

\* str.split(): the maximal runs of non-blank characters
RECURSIVE SplitFrom(_, _, _)
SplitFrom(str, i, cur) ==
  IF i > Len(str) THEN (IF cur = <<>> THEN <<>> ELSE <<cur>>)
  ELSE IF str[i] = " "
       THEN (IF cur = <<>> THEN <<>> ELSE <<cur>>) \o SplitFrom(str, i + 1, <<>>)
       ELSE SplitFrom(str, i + 1, Append(cur, str[i]))

Split(str) == SplitFrom(str, 1, <<>>)

\* Counter(items): the distinct items in first-occurrence order, with counts
RECURSIVE Distinct(_, _)
Distinct(s, seen) ==
  IF s = <<>> THEN <<>>
  ELSE IF Head(s) \in seen THEN Distinct(Tail(s), seen)
       ELSE <<Head(s)>> \o Distinct(Tail(s), seen \cup {Head(s)})

CountOf(x, s) == Cardinality({ i \in 1..Len(s) : s[i] = x })

Counter(s) ==
  LET keys == Distinct(s, {})
  IN  [ i \in 1..Len(keys) |-> [key |-> keys[i], count |-> CountOf(keys[i], s)] ]

\* list(a_set): the iteration order of a set of strings depends on the
\* process's string hash seed; the orders modelled are the rotations of one
\* base order by the seed.
RECURSIVE SetToSeq(_)
SetToSeq(S) ==
  IF S = {} THEN <<>>
  ELSE LET x == CHOOSE y \in S : TRUE IN <<x>> \o SetToSeq(S \ {x})

Rotate(s, k) ==
  IF s = <<>> THEN s
  ELSE LET n == Len(s) IN [ i \in 1..n |-> s[((i - 1 + k) % n) + 1] ]

SetOrder(S, seed) == Rotate(SetToSeq(S), seed)

SymDiff(A, B) == (A \ B) \cup (B \ A)

\* ------------------------------------------------------------------- BPE
\* get_pairs: every adjacent symbol pair of every key, in iteration order,
\* with the key's frequency; the dict of sums has the pairs in the order of
\* their first occurrence.
RECURSIVE PairOccurrences(_)
PairOccurrences(vocab) ==
  IF vocab = <<>> THEN <<>>
  ELSE LET symbols == Split(Head(vocab).key)
           here == [ i \in 1..(IF Len(symbols) = 0 THEN 0 ELSE Len(symbols) - 1) |->
                       [pair |-> <<symbols[i], symbols[i + 1]>>,
                        frequency |-> Head(vocab).count] ]
       IN  here \o PairOccurrences(Tail(vocab))

get_pairs(vocab) ==
  LET occ  == PairOccurrences(vocab)
      keys == Distinct([ i \in 1..Len(occ) |-> occ[i].pair ], {})
  IN  [ i \in 1..Len(keys) |->
          [key |-> keys[i],
           count |-> SumSeq([ j \in 1..Len(occ) |->
                                IF occ[j].pair = keys[i] THEN occ[j].frequency ELSE 0 ])] ]

MinKey(pairs) ==
  LET i == CHOOSE j \in 1..Len(pairs) :
             /\ \A k \in 1..Len(pairs) : pairs[k].count >= pairs[j].count
             /\ \A k \in 1..(j - 1) : pairs[k].count > pairs[j].count
  IN  pairs[i].key

\* max(pairs, key=pairs.get): the first key, in insertion order, of maximal value
MaxKey(pairs) ==
  LET i == CHOOSE j \in 1..Len(pairs) :
             /\ \A k \in 1..Len(pairs) : pairs[k].count <= pairs[j].count
             /\ \A k \in 1..(j - 1) : pairs[k].count < pairs[j].count
  IN  pairs[i].key

\* p.sub(''.join(pair), word): left to right, non-overlapping, whole symbols
RECURSIVE MergeSymbols(_, _)
MergeSymbols(symbols, pair) ==
  IF Len(symbols) < 2 THEN symbols
  ELSE IF symbols[1] = pair[1] /\ symbols[2] = pair[2]
       THEN <<pair[1] \o pair[2]>> \o MergeSymbols(Tail(Tail(symbols)), pair)
       ELSE <<symbols[1]>> \o MergeSymbols(Tail(symbols), pair)

merge_vocab(pair, v_in) ==
  [ i \in 1..Len(v_in) |->
      [key |-> Join(MergeSymbols(Split(v_in[i].key), pair)), count |-> v_in[i].count] ]

RECURSIVE MergeLoopOneMore(_, _)
MergeLoopOneMore(vocab, n) ==
  LET pairs == get_pairs(vocab)
  IN  IF pairs = <<>> THEN vocab
      ELSE IF n = 0 THEN merge_vocab(MaxKey(pairs), vocab)
      ELSE MergeLoopOneMore(merge_vocab(MaxKey(pairs), vocab), n - 1)

\* the merge loop of create_vocab: at most n further iterations
RECURSIVE MergeLoop(_, _)
MergeLoop(vocab, n) ==
  IF n = 0 THEN vocab
  ELSE LET pairs == get_pairs(vocab)
       IN  IF pairs = <<>> THEN vocab
           ELSE MergeLoop(merge_vocab(MaxKey(pairs), vocab), n - 1)

\* ------------------------------------------------------------- Vocabulary
\* {ii: word for ii, word in enumerate(seq)}
Enumerate(seq) == [ ii \in 0..(Len(seq) - 1) |-> seq[ii + 1] ]

\* {word: ii for ii, word in idx_to_token.items()}: a later item overwrites
Invert(i2t) ==
  [ word \in { i2t[ii] : ii \in DOMAIN i2t } |->
      CHOOSE ii \in DOMAIN i2t :
        /\ i2t[ii] = word
        /\ \A jj \in DOMAIN i2t : i2t[jj] = word => jj <= ii ]

RECURSIVE InsertAsc(_, _)
InsertAsc(x, sorted) ==
  IF sorted = <<>> THEN <<x>>
  ELSE IF Head(sorted).count <= x.count
       THEN <<Head(sorted)>> \o InsertAsc(x, Tail(sorted))
       ELSE <<x>> \o sorted

\* sorted(word_counts, key=word_counts.get, reverse=True): stable
RECURSIVE InsertDesc(_, _)
InsertDesc(x, sorted) ==
  IF sorted = <<>> THEN <<x>>
  ELSE IF Head(sorted).count >= x.count
       THEN <<Head(sorted)>> \o InsertDesc(x, Tail(sorted))
       ELSE <<x>> \o sorted

RECURSIVE SortedDesc(_)
SortedDesc(counter) ==
  IF counter = <<>> THEN <<>>
  ELSE InsertDesc(counter[Len(counter)],
                  SortedDesc(SubSeq(counter, 1, Len(counter) - 1)))

\* the symbols left in the keys of the merged vocabulary
BpeSymbols(words, merges) ==
  LET start  == Counter([ i \in 1..Len(words) |->
                            Join([ j \in 1..Len(words[i]) |-> <<words[i][j]>> ]) ])
      merged == MergeLoop(start, merges)
  IN  UNION { Range(Split(merged[i].key)) : i \in 1..Len(merged) }

Letters == { <<c>> : c \in ascii_lowercase }

BpeVocabNoLetters(words, merges) == BpeSymbols(words, merges)

\* vocab = set(list(string.ascii_lowercase) + the symbols of every key)
BpeVocab(words, merges) == Letters \cup BpeSymbols(words, merges)

WholeWordsAll(words, word_in_ngram) == Range(words)

\* whole_words = set(words) ^ word_in_ngram
WholeWords(words, word_in_ngram) == SymDiff(Range(words), word_in_ngram)

\* create_vocab, subword branch
CreateSubword(words, merges, seed) ==
  LET vocab         == BpeVocab(words, merges)
      word_in_ngram == { w \in Range(words) : w \in vocab }
      whole_words   == WholeWords(words, word_in_ngram)
      i2t == Enumerate(SetOrder(vocab, seed) \o SetOrder(whole_words, seed))
  IN  [ token_to_idx |-> Invert(i2t),
        idx_to_token |-> i2t,
        ngram_vocab  |-> SymDiff(vocab, word_in_ngram),
        word_vocab   |-> Range(words) ]

\* create_vocab, plain branch
CreatePlain(words) ==
  LET sorted_vocab == SortedDesc(Counter(words))
      i2t == Enumerate([ i \in 1..Len(sorted_vocab) |-> sorted_vocab[i].key ])
  IN  [ token_to_idx |-> Invert(i2t),
        idx_to_token |-> i2t,
        ngram_vocab  |-> {},
        word_vocab   |-> DOMAIN Invert(i2t) ]

create_vocab(words, ngrams, merges, seed) ==
  IF ngrams THEN CreateSubword(words, merges, seed) ELSE CreatePlain(words)

add_token_unchecked(t2i, i2t, token) ==
  LET index == Cardinality(DOMAIN t2i)
  IN  [ token_to_idx |-> (token :> index) @@ t2i,
        idx_to_token |-> (index :> token) @@ i2t,
        index        |-> index ]

add_token(t2i, i2t, token) ==
  IF token \in DOMAIN t2i
  THEN [ token_to_idx |-> t2i, idx_to_token |-> i2t, index |-> t2i[token] ]
  ELSE LET index == Cardinality(DOMAIN t2i)
       IN  [ token_to_idx |-> (token :> index) @@ t2i,
             idx_to_token |-> (index :> token) @@ i2t,
             index        |-> index ]

lookup_token(t2i, token) == t2i[token]

lookup_index(i2t, index) == i2t[index]

\* lookup_ngram for one word: start and end are the code's 0-based offsets
RECURSIVE NgramScan(_, _, _, _, _)
NgramScan(word, vocab, start, end, cur_output) ==
  IF start < Len(word) /\ start < end
  THEN IF SubSeq(word, start + 1, end) \in vocab
       THEN NgramScan(word, vocab, end, Len(word),
                      Append(cur_output, SubSeq(word, start + 1, end)))
       ELSE NgramScan(word, vocab, start, end - 1, cur_output)
  ELSE cur_output

lookup_ngram(vocab, word) == Join(NgramScan(word, vocab, 0, Len(word), <<>>))

\* Vocabulary.__init__(self, cnfig, token_to_idx=None, NGRAMS=False) called
\* with keyword arguments only: the binding fails with a TypeError unless
\* every parameter without a default is given and every keyword is a parameter.
InitParams == {"cnfig", "token_to_idx", "NGRAMS"}

InitRequired == {"cnfig"}

VocabularyInit(kwargs) ==
  IF InitRequired \subseteq DOMAIN kwargs /\ DOMAIN kwargs \subseteq InitParams
  THEN LET t2i == IF "token_to_idx" \in DOMAIN kwargs THEN kwargs.token_to_idx ELSE <<>>
       IN  [ raised       |-> "none",
             token_to_idx |-> t2i,
             idx_to_token |-> [ idx \in { t2i[t] : t \in DOMAIN t2i } |->
                                  CHOOSE t \in DOMAIN t2i : t2i[t] = idx ] ]
  ELSE [ raised |-> "TypeError" ]

to_serializable(t2i) == [ token_to_idx |-> t2i ]

from_serializable(contents) == VocabularyInit(contents)

\* --------------------------------------------------------------- Dataset
\* sub_sampling: every occurrence is kept or dropped by its own random draw
\* (the keep probability sqrt(threshold / frequency) is strictly between 0
\* and 1 for every corpus of the model); keep[i] is the outcome for tokens[i].
RECURSIVE sub_sampling(_, _)
sub_sampling(toks, keep) ==
  IF toks = <<>> THEN <<>>
  ELSE LET n == Len(toks)
           front == sub_sampling(SubSeq(toks, 1, n - 1), keep)
       IN  IF keep[n] THEN Append(front, toks[n]) ELSE front

\* pad_sequence(batch, batch_first=True) fills with its default padding value
padding_value == 0

\* collate_fn_padd: the rows right-padded to the longest, and that length
RECURSIVE MaxOf(_)
MaxOf(S) ==
  LET x == CHOOSE y \in S : TRUE
  IN  IF S = {x} THEN x
      ELSE LET m == MaxOf(S \ {x}) IN IF x > m THEN x ELSE m

collate_fn_padd(batch) ==
  LET max_ == MaxOf({ Len(batch[i]) : i \in 1..Len(batch) })
  IN  [ rows |-> [ i \in 1..Len(batch) |->
                     batch[i] \o [ k \in 1..(max_ - Len(batch[i])) |-> padding_value ] ],
        max_ |-> max_ ]

\* create_ngram_token, before the padding: [word index, indices of its ngrams]
NgramRows(t2i, i2t, vocab, toks) ==
  [ i \in 1..Len(toks) |->
      LET word   == lookup_index(i2t, toks[i])
          n_word == lookup_ngram(vocab, word)
          grams  == Split(n_word)
      IN  <<lookup_token(t2i, word)>>
            \o [ k \in 1..Len(grams) |-> lookup_token(t2i, grams[k]) ] ]

\* get_noise_dist: one entry per distinct token, in descending frequency;
\* an entry is represented by the count it is computed from (dividing by the
\* total, normalising and raising to 0.75 keep the length and the order).
get_noise_dist(toks) ==
  LET word_freqs == SortedDesc(Counter(toks))
  IN  [ i \in 1..Len(word_freqs) |-> word_freqs[i].count ]

\* ------------------------------------------------------------ DataLoader
\* seq[lo:hi] with Python's 0-based offsets: a negative offset counts from the
\* end, and both are clipped to the sequence
PyOffset(n, k) ==
  LET k1 == IF k < 0 THEN k + n ELSE k
  IN  IF k1 < 0 THEN 0 ELSE IF k1 > n THEN n ELSE k1

PySlice(seq, lo, hi) ==
  LET a == PyOffset(Len(seq), lo)
      b == PyOffset(Len(seq), hi)
  IN  IF a >= b THEN <<>> ELSE SubSeq(seq, a + 1, b)

get_target_unclipped(toks, idx, c) ==
  PySlice(toks, idx - c, idx) \o PySlice(toks, idx + 1, idx + c + 1)

\* get_target with the drawn radius c
get_target(toks, idx, c) ==
  LET start == IF idx - c > 0 THEN idx - c ELSE 0
      stop  == idx + c
  IN  PySlice(toks, start, idx) \o PySlice(toks, idx + 1, stop + 1)

ReplicateOnce(x, n) == <<x>>

\* [batch_x] * n
Replicate(x, n) == [ k \in 1..n |-> x ]

\* one iteration of get_batches' outer loop: the batch at offset idx, with
\* cs[ii + 1] the radius drawn for position ii; xs are the inputs batch_x of
\* the positions (the tokens themselves, or their padded ngram rows)
BatchAt(words, xs, idx, size, cs) ==
  LET batch == PySlice(words, idx, idx + size)
      ys == [ ii \in 1..Len(batch) |-> get_target(batch, ii - 1, cs[ii]) ]
  IN  [ idx    |-> idx,
        batch  |-> batch,
        cs     |-> cs,
        ys     |-> ys,
        context_words |-> Flatten([ ii \in 1..Len(batch) |->
                                      Replicate(PySlice(xs, idx, idx + size)[ii], Len(ys[ii])) ]),
        target_words  |-> Flatten(ys) ]

\* ------------------------------------------------------------------ state
VARIABLES
  pc,             \* where the run (or the sequence of calls) stands
  data,           \* the word list Loader.load hands to create_vocab
  NGRAMS,         \* args.NGRAMS
  SUBSAMPLING,    \* args.SUBSAMPLING
  num_merges,     \* config['NUM_MERGES'], as read by create_vocab
  hashseed,       \* the process's string hash seed (set iteration order)
  token_to_idx,   \* Vocabulary._token_to_idx
  idx_to_token,   \* Vocabulary._idx_to_token
  ngram_vocab,    \* Vocabulary._ngram_vocab ({} stands for None)
  word_vocab,     \* Vocabulary._word_vocab ({} stands for None)
  last,           \* the last call made on the Vocabulary and what it returned
  tokens,         \* Dataset.data_dict['tokens']
  ngram_tokens,   \* Dataset.data_dict['ngram_tokens'], the padded rows
  n_max,          \* Dataset.n_max (0 stands for None)
  pad_index,      \* train: pad_index
  vocab_size,     \* train: vocab_size
  ng_dist,        \* train: ng_dist
  batch_size,     \* DataLoader.batch_size
  window_size,    \* config['WINDOW_SIZE']
  gen_idx,        \* get_batches: the offset idx of the next batch
  n_yielded,      \* get_batches: how many batches it has yielded
  yielded,        \* get_batches: the batch last yielded, with the radii drawn
  start_epoch,    \* train: start_epoch
  epoch,          \* train: the loop variable epoch
  weights,        \* the optimizer steps the model's parameters went through
  cfgs,           \* config.yml: EPOCHS, BATCH_SIZE, WINDOW_SIZE, NUM_MERGES
  RESUME,         \* args.RESUME
  CKPT_EPOCH,     \* args.CKPT_EPOCH
  run,            \* how many processes have been started on this model version
  model_dir,      \* whether the directory models/<version> exists
  files,          \* models/<version>/epoch<k>.pkl, by k
  bpe_vocab,      \* create_vocab: the local vocab of the merge loop
  bpe_i,          \* create_vocab: the iterations of the merge loop made
  ng_word,        \* lookup_ngram: word
  ng_start,       \* lookup_ngram: start
  ng_end,         \* lookup_ngram: end
  cur_output      \* lookup_ngram: cur_output

argVars    == <<data, NGRAMS, SUBSAMPLING>>
vocabVars  == <<num_merges, hashseed, token_to_idx, idx_to_token, ngram_vocab, word_vocab>>
dataVars   == <<tokens, ngram_tokens, n_max>>
trainVars  == <<pad_index, vocab_size, ng_dist>>
loaderVars == <<batch_size, window_size, gen_idx, n_yielded, yielded>>
epochVars  == <<start_epoch, epoch, weights>>
diskVars   == <<cfgs, RESUME, CKPT_EPOCH, run, model_dir, files>>
localVars  == <<bpe_vocab, bpe_i, ng_word, ng_start, ng_end, cur_output>>
runVars    == <<dataVars, trainVars, loaderVars, epochVars, diskVars, localVars>>
vars       == <<pc, argVars, vocabVars, last, runVars>>

get_ngram_vocab == ngram_vocab

\* Vocabulary(cnfig, NGRAMS=...): empty mappings, no ngram or word vocabulary
NewVocabulary ==
  /\ token_to_idx = <<>>
  /\ idx_to_token = <<>>
  /\ ngram_vocab = {}
  /\ word_vocab = {}
  /\ num_merges = 0
  /\ hashseed = 0

\* nothing of the run exists yet
NoRun ==
  /\ tokens = <<>>
  /\ ngram_tokens = <<>>
  /\ n_max = 0
  /\ pad_index = 0
  /\ vocab_size = 0
  /\ ng_dist = <<>>
  /\ batch_size = 0
  /\ window_size = 0
  /\ gen_idx = 0
  /\ n_yielded = 0
  /\ yielded = [idx |-> 0, batch |-> <<>>, cs |-> <<>>, ys |-> <<>>,
                context_words |-> <<>>, target_words |-> <<>>]
  /\ start_epoch = 0
  /\ epoch = 0
  /\ weights = <<>>
  /\ bpe_vocab = <<>>
  /\ bpe_i = 0
  /\ ng_word = <<>>
  /\ ng_start = 0
  /\ ng_end = 0
  /\ cur_output = <<>>

\* a checkpoint file: absent, cut short by the end of the process that was
\* writing it, or whole, with the parameters saved in it
NoFile == [status |-> "none", state_dict |-> <<>>, vocab |-> <<>>]

\* the first process on a model version: no directory, no checkpoint
FirstRun ==
  /\ RESUME = FALSE
  /\ CKPT_EPOCH = 0
  /\ run = 1
  /\ model_dir = FALSE
  /\ files = [ k \in 0..MaxEpochs |-> NoFile ]

\* the specifications that stop before the DataLoader read no configuration
NoConfig ==
  cfgs = [EPOCHS |-> 0, BATCH_SIZE |-> 0, WINDOW_SIZE |-> 0, NUM_MERGES |-> 0]

\* create_vocab(data) on the Vocabulary object
DoCreateVocab ==
  \E merges \in (IF NGRAMS THEN 0..MaxMerges ELSE {0}),
     seed \in (IF NGRAMS THEN 0..MaxHashSeed ELSE {0}) :
    \E v \in {create_vocab(data, NGRAMS, merges, seed)} :
        /\ num_merges' = merges
        /\ hashseed' = seed
        /\ token_to_idx' = v.token_to_idx
        /\ idx_to_token' = v.idx_to_token
        /\ ngram_vocab' = v.ngram_vocab
        /\ word_vocab' = v.word_vocab

\* -------------------------------------------- the Vocabulary under its callers
\* tokens a caller may add: the padding token, a word, a letter
AddTokens == { PAD_TOKEN, <<"a">> \o EOW, <<"a">> }

InitVocab ==
  /\ pc = "new"
  /\ data \in WordLists
  /\ NGRAMS \in BOOLEAN
  /\ SUBSAMPLING = FALSE
  /\ NewVocabulary
  /\ NoRun
  /\ FirstRun
  /\ NoConfig
  /\ last = [op |-> "init"]

CallCreateVocab ==
  /\ pc = "new"
  /\ DoCreateVocab
  /\ pc' = "built"
  /\ last' = [op |-> "create_vocab"]
  /\ UNCHANGED <<argVars, runVars>>

CallAddToken ==
  /\ pc = "built"
  /\ \E token \in AddTokens :
       \E r \in {add_token(token_to_idx, idx_to_token, token)} :
           /\ token_to_idx' = r.token_to_idx
           /\ idx_to_token' = r.idx_to_token
           /\ last' = [op |-> "add_token", token |-> token, index |-> r.index,
                       t2i_before |-> token_to_idx, i2t_before |-> idx_to_token]
  /\ UNCHANGED <<pc, argVars, num_merges, hashseed, ngram_vocab, word_vocab, runVars>>

CallLookupNgram ==
  /\ pc = "built"
  /\ NGRAMS
  /\ \E i \in 1..Len(data) :
       last' = [op |-> "lookup_ngram", word |-> data[i],
                ret |-> lookup_ngram(ngram_vocab, data[i])]
  /\ UNCHANGED <<pc, argVars, vocabVars, runVars>>

CallRoundTrip ==
  /\ pc = "built"
  /\ last' = [op |-> "from_serializable",
              ret |-> from_serializable(to_serializable(token_to_idx))]
  /\ UNCHANGED <<pc, argVars, vocabVars, runVars>>

NextVocab ==
  \/ CallCreateVocab
  \/ CallAddToken
  \/ CallLookupNgram
  \/ CallRoundTrip

SpecVocab == InitVocab /\ [][NextVocab]_vars

\* ------------------------------------------------------- the training run
Init ==
  /\ pc = "start"
  /\ data \in WordLists
  /\ NGRAMS \in BOOLEAN
  /\ SUBSAMPLING \in BOOLEAN
  /\ NewVocabulary
  /\ NoRun
  /\ FirstRun
  /\ NoConfig
  /\ last = [op |-> "init"]

\* utils.Dataset(args, cfgs): Loader.load, create_tokens and, with NGRAMS,
\* create_ngram_token, which raises in collate_fn_padd on an empty token list
DatasetInitWith(mergeSet, seedSet) ==
  /\ pc = "start"
  /\ \E merges \in (IF NGRAMS THEN mergeSet ELSE {0}),
        seed \in (IF NGRAMS THEN seedSet ELSE {0}),
        keep \in (IF SUBSAMPLING THEN [1..Len(data) -> BOOLEAN]
                                 ELSE {[i \in 1..Len(data) |-> TRUE]}) :
       \E v \in {create_vocab(data, NGRAMS, merges, seed)} :
       \E toks \in {sub_sampling([ i \in 1..Len(data) |->
                                     lookup_token(v.token_to_idx, data[i]) ], keep)} :
           /\ num_merges' = merges
           /\ hashseed' = seed
           /\ token_to_idx' = v.token_to_idx
           /\ idx_to_token' = v.idx_to_token
           /\ ngram_vocab' = v.ngram_vocab
           /\ word_vocab' = v.word_vocab
           /\ tokens' = toks
           /\ IF ~NGRAMS
              THEN pc' = "dataset" /\ UNCHANGED <<ngram_tokens, n_max>>
              ELSE IF toks = <<>>
              THEN pc' = "raised" /\ UNCHANGED <<ngram_tokens, n_max>>
              ELSE \E padded \in {collate_fn_padd(
                        NgramRows(v.token_to_idx, v.idx_to_token, v.ngram_vocab, toks))} :
                   /\ pc' = "dataset"
                   /\ ngram_tokens' = padded.rows
                   /\ n_max' = padded.max_
  /\ UNCHANGED <<argVars, last, trainVars, loaderVars, epochVars, diskVars, localVars>>

DatasetInit == DatasetInitWith(0..MaxMerges, 0..MaxHashSeed)

\* train, up to the noise distribution: the padding token, the vocabulary
\* size handed to the model, get_noise_dist(tokens)
TrainSetup ==
  /\ pc = "dataset"
  /\ \E r \in {add_token(token_to_idx, idx_to_token, PAD_TOKEN)} :
         /\ token_to_idx' = r.token_to_idx
         /\ idx_to_token' = r.idx_to_token
         /\ pad_index' = r.index
         /\ vocab_size' = Cardinality(DOMAIN r.token_to_idx)
  /\ ng_dist' = get_noise_dist(tokens)
  /\ pc' = "setup"
  /\ UNCHANGED <<argVars, num_merges, hashseed, ngram_vocab, word_vocab, last,
                 dataVars, loaderVars, epochVars, diskVars, localVars>>

Next ==
  \/ DatasetInit
  \/ TrainSetup

Spec == Init /\ [][Next]_vars

\* ------------------------------------------- the batches of the DataLoader
\* The run without subsampling and under one hash seed, continued through
\* the DataLoader and the batches get_batches yields.
InitLoader ==
  /\ Init
  /\ ~SUBSAMPLING

DatasetInitSeed0 == DatasetInitWith(0..MaxMerges, {0})

\* utils.DataLoader(dataset, cfgs, NGRAMS=...) and the call of get_batches,
\* with BATCH_SIZE and WINDOW_SIZE of the configuration in the given sets
MakeLoaderWith(batchSet, windowSet) ==
  /\ pc = "setup"
  /\ \E b \in batchSet, w \in windowSet :
       /\ batch_size' = b
       /\ window_size' = w
  /\ gen_idx' = 0
  /\ n_yielded' = 0
  /\ pc' = "loader"
  /\ UNCHANGED <<argVars, vocabVars, last, dataVars, trainVars, yielded,
                 epochVars, diskVars, localVars>>

MakeLoader == MakeLoaderWith(1..MaxBatch, 1..MaxWindow)

\* get_batches resumed: the next batch, one radius drawn per position
NextBatch ==
  /\ pc = "loader"
  /\ LET n_batches == Len(tokens) \div batch_size
         words == PySlice(tokens, 0, n_batches * batch_size)
         xs    == IF NGRAMS THEN PySlice(ngram_tokens, 0, n_batches * batch_size)
                            ELSE words
     IN  /\ gen_idx < Len(words)
         /\ \E cs \in [1..batch_size -> 1..window_size] :
              yielded' = BatchAt(words, xs, gen_idx, batch_size, cs)
  /\ gen_idx' = gen_idx + batch_size
  /\ n_yielded' = n_yielded + 1
  /\ UNCHANGED <<pc, argVars, vocabVars, last, dataVars, trainVars,
                 batch_size, window_size, epochVars, diskVars, localVars>>

NextLoader ==
  \/ DatasetInitSeed0
  \/ TrainSetup
  \/ MakeLoader
  \/ NextBatch

SpecLoader == InitLoader /\ [][NextLoader]_vars

\* ------------------------------------------ create_vocab, loop by loop
\* create_vocab in subword mode with its merge loop taken one iteration at
\* a time.
\* tokens = [" ".join(word) for word in words]
SpacedTokens(words) ==
  [ i \in 1..Len(words) |-> Join([ j \in 1..Len(words[i]) |-> <<words[i][j]>> ]) ]

InitBpe ==
  /\ pc = "new"
  /\ data \in WordLists
  /\ NGRAMS = TRUE
  /\ SUBSAMPLING = FALSE
  /\ NewVocabulary
  /\ NoRun
  /\ FirstRun
  /\ NoConfig
  /\ last = [op |-> "init"]

\* create_vocab up to the head of the loop: vocab = Counter(tokens)
BpeStart ==
  /\ pc = "new"
  /\ \E merges \in 0..MaxMerges, seed \in 0..MaxHashSeed :
       /\ num_merges' = merges
       /\ hashseed' = seed
  /\ bpe_vocab' = Counter(SpacedTokens(data))
  /\ bpe_i' = 0
  /\ pc' = "bpe"
  /\ last' = [op |-> "Counter"]
  /\ UNCHANGED <<argVars, token_to_idx, idx_to_token, ngram_vocab, word_vocab,
                 dataVars, trainVars, loaderVars, epochVars, diskVars,
                 ng_word, ng_start, ng_end, cur_output>>

\* one iteration that does not break: the pairs, the best pair, the merge
BpeIter ==
  /\ pc = "bpe"
  /\ bpe_i < num_merges
  /\ \E pairs \in {get_pairs(bpe_vocab)} :
       /\ pairs # <<>>
       /\ \E best \in {MaxKey(pairs)} :
            /\ bpe_vocab' = merge_vocab(best, bpe_vocab)
            /\ last' = [op |-> "merge", best |-> best, v_in |-> bpe_vocab]
  /\ bpe_i' = bpe_i + 1
  /\ UNCHANGED <<pc, argVars, vocabVars, dataVars, trainVars, loaderVars,
                 epochVars, diskVars, ng_word, ng_start, ng_end, cur_output>>

\* the loop is left, by the range running out or by the break, and the
\* rest of create_vocab builds the vocabularies and the mappings
BpeEnd ==
  /\ pc = "bpe"
  /\ bpe_i >= num_merges \/ get_pairs(bpe_vocab) = <<>>
  /\ \E v \in {create_vocab(data, NGRAMS, num_merges, hashseed)} :
       /\ token_to_idx' = v.token_to_idx
       /\ idx_to_token' = v.idx_to_token
       /\ ngram_vocab' = v.ngram_vocab
       /\ word_vocab' = v.word_vocab
  /\ pc' = "built"
  /\ UNCHANGED <<argVars, num_merges, hashseed, last, runVars>>

NextBpe ==
  \/ BpeStart
  \/ BpeIter
  \/ BpeEnd

SpecBpe == InitBpe /\ [][NextBpe]_vars

\* ------------------------------------------ lookup_ngram, loop by loop
\* lookup_ngram on one word with its while loop taken one iteration at a
\* time, on the vocabulary create_vocab built in subword mode.
\* words that are not of the word list: the padding token, the empty word, a
\* word of other letters
OtherWords == { PAD_TOKEN, <<>>, <<"b", "a">> \o EOW }

ShrinkEndTwice(end) == end - 2

\* end -= 1
ShrinkEnd(end) == end - 1

\* for word in words: start, end = 0, len(word); cur_output = []
ScanStart ==
  /\ pc = "built"
  /\ \E word \in Range(data) \cup OtherWords :
       /\ ng_word' = word
       /\ ng_end' = Len(word)
  /\ ng_start' = 0
  /\ cur_output' = <<>>
  /\ pc' = "scan"
  /\ last' = [op |-> "scan"]
  /\ UNCHANGED <<argVars, vocabVars, dataVars, trainVars, loaderVars, epochVars,
                 diskVars, bpe_vocab, bpe_i>>

\* one iteration of the while loop
ScanStep ==
  /\ pc = "scan"
  /\ ng_start < Len(ng_word) /\ ng_start < ng_end
  /\ IF PySlice(ng_word, ng_start, ng_end) \in get_ngram_vocab
     THEN /\ cur_output' = Append(cur_output, PySlice(ng_word, ng_start, ng_end))
          /\ ng_start' = ng_end
          /\ ng_end' = Len(ng_word)
     ELSE /\ ng_end' = ShrinkEnd(ng_end)
          /\ UNCHANGED <<ng_start, cur_output>>
  /\ UNCHANGED <<pc, argVars, vocabVars, last, dataVars, trainVars, loaderVars,
                 epochVars, diskVars, bpe_vocab, bpe_i, ng_word>>

\* the while condition is false: outputs.append(' '.join(cur_output))
ScanEnd ==
  /\ pc = "scan"
  /\ ~(ng_start < Len(ng_word) /\ ng_start < ng_end)
  /\ last' = [op |-> "lookup_ngram", word |-> ng_word, ret |-> Join(cur_output)]
  /\ pc' = "built"
  /\ UNCHANGED <<argVars, vocabVars, runVars>>

NextNgram ==
  \/ CallCreateVocab
  \/ ScanStart
  \/ ScanStep
  \/ ScanEnd

\* the loop is not held up from outside: an iteration that can be made is made
SpecNgram ==
  /\ InitBpe
  /\ [][NextNgram]_vars
  /\ WF_vars(ScanStep)
  /\ WF_vars(ScanEnd)

\* ------------------------------------------------- the epochs of a run
\* The run in plain mode without subsampling, continued through the epoch
\* loop of train; the process can be ended from outside at any point, and a
\* further process can be started on the same model version, data and
\* configuration, with its own RESUME and CKPT_EPOCH.
InitTrain ==
  /\ pc = "start"
  /\ data \in WordLists
  /\ NGRAMS = FALSE
  /\ SUBSAMPLING = FALSE
  /\ NewVocabulary
  /\ NoRun
  /\ FirstRun
  /\ cfgs \in [EPOCHS : 1..MaxEpochs, BATCH_SIZE : 1..MaxBatch, WINDOW_SIZE : {1},
               NUM_MERGES : {0}]
  /\ last = [op |-> "init"]

MakeLoaderCfg == MakeLoaderWith({cfgs.BATCH_SIZE}, {cfgs.WINDOW_SIZE})

epoch_finish_same(e) == e

\* epoch_finish = epoch + 1
epoch_finish(e) == e + 1

\* the greatest k whose checkpoint file is whole (0 if there is none)
LastCheckpoint ==
  MaxOf({0} \cup { k \in DOMAIN files : files[k].status = "whole" })

\* train, from the RESUME test to the head of the epoch loop: torch.load
\* raises on a file that is absent or cut short, os.mkdir on a directory
\* that exists
TrainBegin ==
  /\ pc = "loader"
  /\ IF RESUME
     THEN /\ start_epoch' = CKPT_EPOCH
          /\ UNCHANGED model_dir
          /\ IF files[CKPT_EPOCH].status = "whole"
             THEN /\ weights' = files[CKPT_EPOCH].state_dict
                  /\ epoch' = CKPT_EPOCH
                  /\ pc' = IF CKPT_EPOCH < cfgs.EPOCHS THEN "epoch" ELSE "done"
                  /\ last' = [op |-> "load", latest |-> LastCheckpoint,
                              vocab |-> files[CKPT_EPOCH].vocab]
             ELSE /\ pc' = "raised"
                  /\ UNCHANGED <<weights, epoch, last>>
     ELSE /\ start_epoch' = 0
          /\ IF model_dir
             THEN /\ pc' = "raised"
                  /\ UNCHANGED <<weights, epoch, last, model_dir>>
             ELSE /\ model_dir' = TRUE
                  /\ epoch' = 0
                  /\ pc' = IF 0 < cfgs.EPOCHS THEN "epoch" ELSE "done"
                  /\ last' = [op |-> "mkdir"]
                  /\ UNCHANGED weights
  /\ gen_idx' = 0
  /\ n_yielded' = 0
  /\ UNCHANGED <<argVars, vocabVars, dataVars, trainVars, batch_size, window_size,
                 yielded, cfgs, RESUME, CKPT_EPOCH, run, files, localVars>>

\* one step of the inner loop: the next batch of get_batches, the loss, the
\* backward pass and optimizer.step()
TrainStep ==
  /\ pc = "epoch"
  /\ LET n_batches == Len(tokens) \div batch_size
         words == PySlice(tokens, 0, n_batches * batch_size)
         xs    == IF NGRAMS THEN PySlice(ngram_tokens, 0, n_batches * batch_size)
                            ELSE words
     IN  /\ gen_idx < Len(words)
         /\ \E cs \in [1..batch_size -> 1..window_size] :
              yielded' = BatchAt(words, xs, gen_idx, batch_size, cs)
  /\ gen_idx' = gen_idx + batch_size
  /\ n_yielded' = n_yielded + 1
  /\ weights' = Append(weights, <<epoch, n_yielded>>)
  /\ UNCHANGED <<pc, argVars, vocabVars, last, dataVars, trainVars,
                 batch_size, window_size, start_epoch, epoch, diskVars, localVars>>

\* get_batches is exhausted: the loss of the epoch (a division by the number
\* of tokens), then torch.save opens epoch<epoch_finish>.pkl for writing
EpochEnd ==
  /\ pc = "epoch"
  /\ gen_idx >= (Len(tokens) \div batch_size) * batch_size
  /\ IF Len(tokens) = 0
     THEN pc' = "raised" /\ UNCHANGED files
     ELSE /\ pc' = "saving"
          /\ files' = [files EXCEPT ![epoch_finish(epoch)] =
                                      [status |-> "cut", state_dict |-> <<>>,
                                       vocab |-> <<>>]]
  /\ UNCHANGED <<argVars, vocabVars, last, dataVars, trainVars, loaderVars,
                 epochVars, cfgs, RESUME, CKPT_EPOCH, run, model_dir, localVars>>

\* torch.save returns: the file is whole; the loop goes to its next epoch
SaveEnd ==
  /\ pc = "saving"
  /\ files' = [files EXCEPT ![epoch_finish(epoch)] =
                              [status |-> "whole", state_dict |-> weights,
                               vocab |-> token_to_idx]]
  /\ epoch' = epoch + 1
  /\ gen_idx' = 0
  /\ n_yielded' = 0
  /\ pc' = IF epoch + 1 < cfgs.EPOCHS THEN "epoch" ELSE "done"
  /\ UNCHANGED <<argVars, vocabVars, last, dataVars, trainVars, batch_size,
                 window_size, yielded, start_epoch, weights,
                 cfgs, RESUME, CKPT_EPOCH, run, model_dir, localVars>>

\* the process is ended from outside; what it wrote to disk stays
Kill ==
  /\ pc \in {"start", "dataset", "setup", "loader", "epoch", "saving"}
  /\ pc' = "killed"
  /\ UNCHANGED <<argVars, vocabVars, last, runVars>>

\* a further process on the same version, data and configuration, after the
\* former was ended, raised or returned: nothing of its memory is left
Rerun ==
  /\ pc \in {"killed", "raised", "done"}
  /\ run < MaxRuns
  /\ run' = run + 1
  /\ RESUME' \in BOOLEAN
  /\ CKPT_EPOCH' \in 0..cfgs.EPOCHS
  /\ pc' = "start"
  /\ token_to_idx' = <<>>
  /\ idx_to_token' = <<>>
  /\ ngram_vocab' = {}
  /\ word_vocab' = {}
  /\ num_merges' = 0
  /\ hashseed' = 0
  /\ tokens' = <<>>
  /\ ngram_tokens' = <<>>
  /\ n_max' = 0
  /\ pad_index' = 0
  /\ vocab_size' = 0
  /\ ng_dist' = <<>>
  /\ batch_size' = 0
  /\ window_size' = 0
  /\ gen_idx' = 0
  /\ n_yielded' = 0
  /\ yielded' = [idx |-> 0, batch |-> <<>>, cs |-> <<>>, ys |-> <<>>,
                 context_words |-> <<>>, target_words |-> <<>>]
  /\ start_epoch' = 0
  /\ epoch' = 0
  /\ weights' = <<>>
  /\ last' = [op |-> "init"]
  /\ UNCHANGED <<argVars, cfgs, model_dir, files, localVars>>

NextTrain ==
  \/ DatasetInitSeed0
  \/ TrainSetup
  \/ MakeLoaderCfg
  \/ TrainBegin
  \/ TrainStep
  \/ EpochEnd
  \/ SaveEnd
  \/ Kill
  \/ Rerun

SpecTrain == InitTrain /\ [][NextTrain]_vars

\* --------------------------------------------- the vocabulary of a resumed run
\* Runs of two epochs in plain and in subword mode, each process with its
\* own string hash seed, under one configuration.
InitResume ==
  /\ pc = "start"
  /\ data \in WordLists
  /\ NGRAMS \in BOOLEAN
  /\ SUBSAMPLING = FALSE
  /\ NewVocabulary
  /\ NoRun
  /\ FirstRun
  /\ cfgs \in [EPOCHS : {MaxEpochs}, BATCH_SIZE : {MaxBatch - 1}, WINDOW_SIZE : {1},
               NUM_MERGES : IF NGRAMS THEN 0..MaxMerges ELSE {0}]
  /\ last = [op |-> "init"]

DatasetInitCfg == DatasetInitWith({cfgs.NUM_MERGES}, 0..MaxHashSeed)

NextResume ==
  \/ DatasetInitCfg
  \/ TrainSetup
  \/ MakeLoaderCfg
  \/ TrainBegin
  \/ TrainStep
  \/ EpochEnd
  \/ SaveEnd
  \/ Kill
  \/ Rerun

SpecResume == InitResume /\ [][NextResume]_vars

\* ------------------------------------------------------------------ claims
\* C1: once create_vocab has run (plain or subword), and after any add_token
\* calls, the two mappings are mutually inverse: lookup_index(lookup_token(t))
\* is t for every token present, lookup_token(lookup_index(i)) is i for every
\* index present.
C1_Bijective ==
  pc = "built" =>
    /\ \A t \in DOMAIN token_to_idx :
         /\ lookup_token(token_to_idx, t) \in DOMAIN idx_to_token
         /\ lookup_index(idx_to_token, lookup_token(token_to_idx, t)) = t
    /\ \A i \in DOMAIN idx_to_token :
         /\ lookup_index(idx_to_token, i) \in DOMAIN token_to_idx
         /\ lookup_token(token_to_idx, lookup_index(idx_to_token, i)) = i

\* a subword vocabulary in which a word was merged whole, after a new token
C1_Witness ==
  /\ pc = "built" /\ NGRAMS /\ hashseed > 0
  /\ \E w \in Range(data) : w \notin ngram_vocab
  /\ last.op = "add_token"
  /\ last.token \notin DOMAIN last.t2i_before

\* C2 (as claimed): lookup_ngram of a word of the training list returns
\* pieces whose concatenation, separator removed, is the word.
C2_Reconstructs ==
  last.op = "lookup_ngram" => Flatten(Split(last.ret)) = last.word

\* C3: in plain mode a more frequent token has a smaller index, the indices
\* are 0..n-1 for the n distinct tokens, and index 0 goes to a most frequent one.
C3_FrequencyOrder ==
  (last.op = "create_vocab" /\ ~NGRAMS) =>
    /\ DOMAIN token_to_idx = Range(data)
    /\ { token_to_idx[t] : t \in DOMAIN token_to_idx }
         = 0..(Cardinality(Range(data)) - 1)
    /\ \A t1, t2 \in Range(data) :
         CountOf(t1, data) > CountOf(t2, data) => token_to_idx[t1] < token_to_idx[t2]
    /\ \A t \in Range(data) :
         token_to_idx[t] = 0 => \A u \in Range(data) : CountOf(u, data) <= CountOf(t, data)

\* the more frequent of two tokens is the one that occurs later first
C3_Witness ==
  /\ last.op = "create_vocab" /\ ~NGRAMS
  /\ Cardinality(Range(data)) = 2
  /\ CountOf(data[1], data) < CountOf(data[Len(data)], data)

\* C4: add_token of a present token returns its index and changes nothing;
\* of an absent one it returns the number of tokens so far, adds that one
\* entry to both mappings and changes no other; adding it again returns the
\* same index and changes nothing.
C4_AddToken ==
  last.op = "add_token" =>
    LET t      == last.token
        before == last.t2i_before
        again  == add_token(token_to_idx, idx_to_token, t)
    IN  /\ IF t \in DOMAIN before
           THEN /\ last.index = before[t]
                /\ token_to_idx = before
                /\ idx_to_token = last.i2t_before
           ELSE /\ last.index = Cardinality(DOMAIN before)
                /\ DOMAIN token_to_idx = DOMAIN before \cup {t}
                /\ token_to_idx[t] = last.index
                /\ \A u \in DOMAIN before : token_to_idx[u] = before[u]
                /\ last.index \notin DOMAIN last.i2t_before
                /\ DOMAIN idx_to_token = DOMAIN last.i2t_before \cup {last.index}
                /\ idx_to_token[last.index] = t
                /\ \A i \in DOMAIN last.i2t_before : idx_to_token[i] = last.i2t_before[i]
        /\ again.index = last.index
        /\ again.token_to_idx = token_to_idx
        /\ again.idx_to_token = idx_to_token

\* the padding token added a second time, to a vocabulary that has words
C4_Witness ==
  /\ last.op = "add_token"
  /\ last.token = PAD_TOKEN
  /\ last.token \in DOMAIN last.t2i_before
  /\ Range(data) # {}

\* C7: in subword mode the ngram vocabulary holds all 26 lowercase letters.
C7_Letters ==
  (pc = "built" /\ NGRAMS) => Letters \subseteq get_ngram_vocab

\* merges were run and a word merged whole was taken out of the ngram vocabulary
C7_Witness ==
  /\ pc = "built" /\ NGRAMS /\ num_merges > 0
  /\ \E w \in Range(data) : w \in DOMAIN token_to_idx /\ w \notin get_ngram_vocab
  /\ Cardinality(get_ngram_vocab) > Cardinality(Letters)

\* the single characters of the words of a list
CharsOf(words) == UNION { { <<w[j]>> : j \in 1..Len(w) } : w \in Range(words) }

\* C8 (as claimed): with zero merges the ngram vocabulary is the 26 letters
\* plus multi-character tokens that are whole words, and nothing else.
C8_LettersAndWholeWords ==
  (pc = "built" /\ NGRAMS /\ num_merges = 0) =>
    /\ Letters \subseteq get_ngram_vocab
    /\ \A g \in get_ngram_vocab \ Letters : Len(g) > 1 /\ g \in Range(data)

\* C8 (amended): with zero merges the ngram vocabulary is exactly the 26
\* letters plus every single character occurring in the words; no whole word
\* and no other multi-character unit is in it, and every word has an index.
C8_LettersAndCharacters ==
  (pc = "built" /\ NGRAMS /\ num_merges = 0) =>
    /\ get_ngram_vocab = Letters \cup CharsOf(data)
    /\ \A w \in Range(data) : w \notin get_ngram_vocab /\ w \in DOMAIN token_to_idx

\* zero merges on a list of two different words
C8_Witness ==
  /\ pc = "built" /\ NGRAMS /\ num_merges = 0
  /\ last.op = "create_vocab"
  /\ Cardinality(Range(data)) = 2

\* C9 (as claimed): to_serializable then from_serializable succeeds and gives
\* back the same token_to_idx mapping.
C9_RoundTrip ==
  last.op = "from_serializable" =>
    /\ last.ret.raised = "none"
    /\ last.ret.token_to_idx = token_to_idx

\* C10 (as claimed): the noise distribution built in train (here of a
\* non-empty token list) has as many entries as the vocabulary size handed
\* to the model.
C10_NoiseLength ==
  (pc = "setup" /\ tokens # <<>>) => Len(ng_dist) = vocab_size

\* the positions of the window of radius c around position i of a batch of n
\* tokens, ascending: those of [i-c, i+c] inside the batch, i itself left out
WindowPositions(i, c, n) ==
  LET P == { j \in 0..(n - 1) : i - c <= j /\ j <= i + c /\ j # i }
  IN  [ k \in 1..Cardinality(P) |->
          CHOOSE j \in P : Cardinality({ m \in P : m < j }) = k - 1 ]

\* C5: for every position of a yielded batch the radius drawn is in
\* 1..WINDOW_SIZE and the context list has at most 2*WINDOW_SIZE entries: the
\* tokens of the batch at the positions of the window clipped to the batch,
\* in order, the position itself left out.
C5_Window ==
  (pc = "loader" /\ n_yielded > 0) =>
    \A ii \in 1..Len(yielded.batch) :
      LET pos == WindowPositions(ii - 1, yielded.cs[ii], Len(yielded.batch))
      IN  /\ yielded.cs[ii] \in 1..window_size
          /\ Len(yielded.ys[ii]) <= 2 * window_size
          /\ yielded.ys[ii] = [ k \in 1..Len(pos) |-> yielded.batch[pos[k] + 1] ]

\* a batch of three with the full radius at both ends and a whole window inside
C5_Witness ==
  /\ pc = "loader" /\ n_yielded > 0
  /\ window_size = 2
  /\ yielded.cs = <<2, 1, 2>>
  /\ Cardinality(Range(yielded.batch)) = 2

\* C6: a yielded batch is the next batch_size tokens of the token list, in
\* order; its two sequences have equal length and list, position by
\* position, the input of that position (the token, or in ngram mode the
\* padded row of that token) once per context word of its window, beside
\* that context word.
C6_Pairs ==
  (pc = "loader" /\ n_yielded > 0) =>
    LET idx == yielded.idx
        n   == Len(yielded.batch)
        x(ii) == IF NGRAMS THEN ngram_tokens[idx + ii] ELSE tokens[idx + ii]
        pos(ii) == WindowPositions(ii - 1, yielded.cs[ii], n)
    IN  /\ idx = (n_yielded - 1) * batch_size
        /\ yielded.batch = [ k \in 1..batch_size |-> tokens[idx + k] ]
        /\ NGRAMS => \A ii \in 1..n : ngram_tokens[idx + ii][1] = tokens[idx + ii]
        /\ Len(yielded.context_words) = Len(yielded.target_words)
        /\ yielded.context_words
             = Flatten([ ii \in 1..n |-> [ k \in 1..Len(pos(ii)) |-> x(ii) ] ])
        /\ yielded.target_words
             = Flatten([ ii \in 1..n |->
                          [ k \in 1..Len(pos(ii)) |-> yielded.batch[pos(ii)[k] + 1] ] ])

\* the second batch of two, in ngram mode, of a token list of two words
C6_Witness ==
  /\ pc = "loader" /\ n_yielded = 2
  /\ NGRAMS
  /\ batch_size = 2
  /\ Cardinality(Range(yielded.batch)) = 2
  /\ Len(yielded.target_words) = 2

\* C11 (as claimed): in ngram mode, once train has added the padding token,
\* every row [word index, ngram indices...] of the dataset is right-padded to
\* the maximum row length n_max, and every padded slot holds pad_index, the
\* index add_token('PAD</w>') returned; no padded slot holds the index of a
\* token of the vocabulary built by create_vocab.
C11_PadIndex ==
  (pc = "setup" /\ NGRAMS) =>
    LET rows == NgramRows(token_to_idx, idx_to_token, ngram_vocab, tokens)
    IN  \A i \in 1..Len(tokens) :
          /\ Len(ngram_tokens[i]) = n_max
          /\ SubSeq(ngram_tokens[i], 1, Len(rows[i])) = rows[i]
          /\ \A k \in (Len(rows[i]) + 1)..n_max :
               /\ ngram_tokens[i][k] = pad_index
               /\ idx_to_token[ngram_tokens[i][k]] = PAD_TOKEN

\* the steps of epoch e when it has made n of them, and those of the whole
\* epochs 0..k-1 of n steps each, in the order they are made
EpochSteps(e, n) == [ st \in 1..n |-> <<e, st - 1>> ]

StepsOfEpochs(k, n) == Flatten([ e \in 1..k |-> EpochSteps(e - 1, n) ])

\* the batches get_batches yields in one epoch
StepsPerEpoch == Len(data) \div cfgs.BATCH_SIZE

\* every whole checkpoint file keyed k holds parameters that went through
\* every batch step of the epochs 0..k-1, once each and in order; so do, at
\* every point of the loop of a run, the parameters in memory for the epochs
\* before the current one, and at the end for the epochs 0..EPOCHS-1
ParametersOnce ==
  /\ \A k \in DOMAIN files :
       files[k].status = "whole" =>
         k >= 1 /\ files[k].state_dict = StepsOfEpochs(k, StepsPerEpoch)
  /\ pc = "epoch" =>
       weights = StepsOfEpochs(epoch, StepsPerEpoch) \o EpochSteps(epoch, n_yielded)
  /\ pc = "saving" =>
       /\ n_yielded = StepsPerEpoch
       /\ weights = StepsOfEpochs(epoch + 1, StepsPerEpoch)
  /\ pc = "done" =>
       weights = StepsOfEpochs(cfgs.EPOCHS, StepsPerEpoch)

\* C12 (as claimed): a checkpoint keyed k is written only after every batch
\* step of the k-th epoch; a resumed run re-reads the last whole checkpoint
\* and continues with the first epoch that has none, so that over the runs
\* no epoch is skipped and none is trained a second time.
C12_ResumesFromLast ==
  /\ ParametersOnce
  /\ last.op = "load" =>
       /\ start_epoch = last.latest
       /\ pc = "epoch" => files[epoch_finish(epoch)].status # "whole"

\* C12 (amended): a checkpoint keyed k is written only after every batch
\* step of the k-th epoch, and holds parameters that went through the epochs
\* 0..k-1 once each; a resumed run re-reads the checkpoint CKPT_EPOCH names,
\* which has to be whole, and continues with epoch CKPT_EPOCH, so that its
\* parameters go through each epoch 0..EPOCHS-1 exactly once; it trains no
\* epoch that already has a whole checkpoint if CKPT_EPOCH names the last one.
C12_EpochsOnce ==
  /\ ParametersOnce
  /\ last.op = "load" =>
       /\ start_epoch = CKPT_EPOCH
       /\ files[CKPT_EPOCH].status = "whole"
       /\ pc \in {"epoch", "saving"} => epoch >= CKPT_EPOCH
       /\ (pc = "epoch" /\ start_epoch = last.latest) =>
            files[epoch_finish(epoch)].status # "whole"

\* a run stopped in its second epoch, resumed from the checkpoint of the
\* first and brought to its end
C12_Witness ==
  /\ pc = "done"
  /\ run = 2
  /\ last.op = "load"
  /\ start_epoch = 1
  /\ cfgs.EPOCHS = 2
  /\ StepsPerEpoch = 2
  /\ files[2].status = "whole"

\* a space separated token with the spaces taken out
Unspaced(str) == Flatten(Split(str))

\* the adjacent symbol pairs of the keys of a vocabulary, and the occurrences
\* of one of them over the keys, each weighted by the key's frequency
AdjacentPairs(v) ==
  UNION { { <<Split(v[i].key)[j], Split(v[i].key)[j + 1]>> :
              j \in 1..(Len(Split(v[i].key)) - 1) } : i \in 1..Len(v) }

TotalCount(pair, v) ==
  SumSeq([ i \in 1..Len(v) |->
             v[i].count * Cardinality({ j \in 1..(Len(Split(v[i].key)) - 1) :
                                          /\ Split(v[i].key)[j] = pair[1]
                                          /\ Split(v[i].key)[j + 1] = pair[2] }) ])

\* C13: in subword mode the merge loop makes at most NUM_MERGES iterations
\* and is left earlier only when no adjacent pair remains; every iteration
\* merges an adjacent pair of maximal total occurrence count (occurrences
\* over the distinct tokens, weighted by token frequency) and leaves every
\* token's characters and frequency as they were; the vocabulary is built
\* from what the loop leaves.
C13_MergeLoop ==
  /\ bpe_i <= num_merges
  /\ last.op = "merge" =>
       /\ last.best \in AdjacentPairs(last.v_in)
       /\ \A p \in AdjacentPairs(last.v_in) :
            TotalCount(p, last.v_in) <= TotalCount(last.best, last.v_in)
       /\ Len(bpe_vocab) = Len(last.v_in)
       /\ \A i \in 1..Len(bpe_vocab) :
            /\ Unspaced(bpe_vocab[i].key) = Unspaced(last.v_in[i].key)
            /\ bpe_vocab[i].count = last.v_in[i].count
            /\ Len(Split(bpe_vocab[i].key)) <= Len(Split(last.v_in[i].key))
       /\ \E i \in 1..Len(bpe_vocab) :
            Len(Split(bpe_vocab[i].key)) < Len(Split(last.v_in[i].key))
       /\ \A i \in 1..Len(bpe_vocab) :
            \A j \in 1..Len(Split(bpe_vocab[i].key)) :
              Split(bpe_vocab[i].key)[j] \in
                Range(Split(last.v_in[i].key)) \cup {last.best[1] \o last.best[2]}
  /\ pc \in {"bpe", "built"} =>
       /\ Len(bpe_vocab) = Cardinality(Range(data))
       /\ \A i \in 1..Len(bpe_vocab) :
            /\ Unspaced(bpe_vocab[i].key) \in Range(data)
            /\ bpe_vocab[i].count = CountOf(Unspaced(bpe_vocab[i].key), data)
  /\ pc = "built" =>
       /\ bpe_i = num_merges \/ AdjacentPairs(bpe_vocab) = {}
       /\ bpe_vocab = MergeLoop(Counter(SpacedTokens(data)), num_merges)
       /\ ngram_vocab \cup { w \in Range(data) : w \notin ngram_vocab }
            = Letters \cup Range(data)
                \cup UNION { Range(Split(bpe_vocab[i].key)) : i \in 1..Len(bpe_vocab) }

\* the loop run out after merges on two words whose pairs differ in count
C13_Witness ==
  /\ pc = "built"
  /\ last.op = "merge"
  /\ Cardinality(Range(data)) = 2
  /\ bpe_i >= 2
  /\ \E p, q \in AdjacentPairs(last.v_in) :
       TotalCount(p, last.v_in) < TotalCount(q, last.v_in)

\* the loop left by its break, before NUM_MERGES iterations were made
C13_EarlyStop ==
  /\ pc = "built"
  /\ last.op = "merge"
  /\ bpe_i < num_merges

\* whether some prefix of the word from offset off on, longer than n
\* characters, is in the ngram vocabulary
LongerPrefixIn(word, off, n) ==
  \E m \in (n + 1)..(Len(word) - off) : SubSeq(word, off + 1, off + m) \in get_ngram_vocab

\* the pieces emitted so far are, one after the other from the start of the
\* word, each the longest prefix of what was left that is in the vocabulary
PiecesLongest ==
  /\ Flatten(cur_output) = SubSeq(ng_word, 1, ng_start)
  /\ \A k \in 1..Len(cur_output) :
       LET off == Len(Flatten(SubSeq(cur_output, 1, k - 1)))
       IN  /\ Len(cur_output[k]) >= 1
           /\ cur_output[k] = SubSeq(ng_word, off + 1, off + Len(cur_output[k]))
           /\ cur_output[k] \in get_ngram_vocab
           /\ ~LongerPrefixIn(ng_word, off, Len(cur_output[k]))

\* what bounds the iterations still to be made
ScanMeasure == (Len(ng_word) - ng_start) * (Len(ng_word) + 1) + (ng_end - ng_start)

ScanInvariant ==
  /\ pc = "scan" =>
       /\ 0 <= ng_start /\ ng_start <= ng_end /\ ng_end <= Len(ng_word)
       /\ PiecesLongest
       /\ ~LongerPrefixIn(ng_word, ng_start, ng_end - ng_start)
  /\ last.op = "lookup_ngram" =>
       /\ PiecesLongest
       /\ last.ret = Join(cur_output)
       /\ last.ret = lookup_ngram(get_ngram_vocab, last.word)
       /\ ng_start = Len(ng_word) \/ ~LongerPrefixIn(ng_word, ng_start, 0)

\* C14: lookup_ngram terminates for every word (every iteration of its loop
\* lowers a natural number, and a started scan returns), and every piece it
\* emits is the longest prefix of the not yet consumed rest of the word that
\* is in the ngram vocabulary, the next piece starting where the previous
\* one ended; it stops short of the end of the word only when no prefix of
\* the rest is in the vocabulary.
C14_LongestPrefix ==
  /\ []ScanInvariant
  /\ [][ScanStep => (ScanMeasure' < ScanMeasure /\ ScanMeasure' >= 0)]_vars
  /\ (pc = "scan") ~> (last.op = "lookup_ngram")

\* a word cut into a merged unit of several characters and further pieces
C14_Witness ==
  /\ last.op = "lookup_ngram"
  /\ last.word \in Range(data)
  /\ Len(cur_output) >= 2
  /\ \E k \in 1..Len(cur_output) : Len(cur_output[k]) >= 2
  /\ ng_start = Len(ng_word)

\* C15 (as claimed): the vocabulary a resumed run builds from the same word
\* list, in plain and in subword mode, gives every token the index it has in
\* the vocabulary of the run that trained and saved the checkpoint it loads.
C15_SameMapping ==
  last.op = "load" => token_to_idx = last.vocab

====
